---- MODULE Spec2Model ----
(***************************************************************************)
(* A model of gumwood's src/schema.rs: the introspection-response parser   *)
(* (Schema::from_str), the Schema navigation methods, the TypeRef          *)
(* decoration algorithm and the TableItem row projections.                 *)
(*                                                                         *)
(* Strings that the code takes apart or assembles are sequences of         *)
(* one-character strings; JSON object keys are TLA+ strings.  Option<T> is  *)
(* a sequence of length 0 (None) or 1 (Some).                              *)
(***************************************************************************)
EXTENDS Integers, Sequences, FiniteSets, TLC

VARIABLES
    tr,         \* the TypeRef built and decorated (None where no TypeRef is built)
    decorated,  \* Option<String>: what decorated_name() returned for tr, None before the call
    text,       \* Option<text>: the argument of the from_str call, None before the call
    schema,     \* Option<Schema>: the Schema from_str returned (Ok), None otherwise
    err,        \* Option<error>: the error from_str returned (Err), None otherwise
    call,       \* Option<call>: the latest navigation call on the Schema
    ret,        \* what the latest navigation call returned
    saved,      \* Option<[call, ret]>: the first navigation call made and what it returned,
                \* kept from the second call on
    opt_s,      \* the Option<String> given to to_safe_string
    safe,       \* Option<String>: what to_safe_string returned for opt_s, None before the call
    resafe,     \* Option<String>: what to_safe_string returned for Some(safe), None before the call
    item,       \* Option<item>: the Field, Input or Enum whose row is taken
    row,        \* Option<Vec<String>>: what table_fields() returned for item, None before the call
    headers,    \* Option<Vec<String>>: the headers argument of from_url (None where no request is made)
    post        \* Option<request>: the request from_url sent, None before the call

decorVars == <<tr, decorated>>
schemaVars == <<text, schema, err, call, ret, saved>>
safeVars == <<opt_s, safe, resafe>>
rowVars == <<item, row>>
urlVars == <<headers, post>>
vars == <<tr, decorated, text, schema, err, call, ret, saved, opt_s, safe, resafe, item, row,
          headers, post>>
notDecorVars == <<schemaVars, safeVars, rowVars, urlVars>>
notSchemaVars == <<decorVars, safeVars, rowVars, urlVars>>
notSafeVars == <<decorVars, schemaVars, rowVars, urlVars>>
notRowVars == <<decorVars, schemaVars, safeVars, urlVars>>
notUrlVars == <<decorVars, safeVars, rowVars>>

(***************************************************************************)
(* Option<T>                                                               *)
(***************************************************************************)
None == <<>>
Some(x) == <<x>>
is_some(o) == Len(o) = 1
is_none(o) == Len(o) = 0
unwrap(o) == o[1]

(***************************************************************************)
(* Bounds of the model                                                     *)
(***************************************************************************)
MaxChain == 8       \* longest TypeRef chain built (nodes)

(***************************************************************************)
(* String literals of the program and of the inputs                        *)
(***************************************************************************)
EmptyStr == <<>>
NON_NULL == <<"N", "O", "N", "_", "N", "U", "L", "L">>
LIST == <<"L", "I", "S", "T">>
OBJECT == <<"O", "B", "J", "E", "C", "T">>
LeafName == <<"n">>

(***************************************************************************)
(* to_safe_string.  char::is_whitespace, over the characters of the model. *)
(***************************************************************************)
is_whitespace(c) == c \in {" ", "\t", "\n", "\r"}

\* str::trim_start
RECURSIVE trim_start(_)
trim_start(s) ==
    IF s # <<>> /\ is_whitespace(Head(s)) THEN trim_start(Tail(s)) ELSE s

\* str::trim_end
RECURSIVE trim_end(_)
trim_end(s) ==
    IF s # <<>> /\ is_whitespace(s[Len(s)]) THEN trim_end(SubSeq(s, 1, Len(s) - 1)) ELSE s

\* str::trim
trim(s) == trim_end(trim_start(s))

\* str::replace("\n", "")
RECURSIVE replace_newline(_)
replace_newline(s) ==
    IF s = <<>> THEN <<>>
    ELSE IF Head(s) = "\n" THEN replace_newline(Tail(s))
    ELSE <<Head(s)>> \o replace_newline(Tail(s))

\* a bug that would trim and leave the newlines inside
to_safe_string_trim_only(o) == IF is_some(o) THEN trim(unwrap(o)) ELSE EmptyStr

to_safe_string(o) == IF is_some(o) THEN replace_newline(trim(unwrap(o))) ELSE EmptyStr

(***************************************************************************)
(* TypeRef: the record of name, kind and of_type (Option<Box<TypeRef>>).   *)
(***************************************************************************)
TYPE_LEVELS == 7

TypeRef(name, kind, of_type) == [name |-> name, kind |-> kind, of_type |-> of_type]

is_required(self) == is_some(self.kind) /\ unwrap(self.kind) = NON_NULL

\* a bug that would compare the kind without regard to case
is_list_ignoring_case(self) ==
    is_some(self.kind) /\ unwrap(self.kind) \in {LIST, <<"l", "i", "s", "t">>}

is_list(self) == is_some(self.kind) /\ unwrap(self.kind) = LIST

\* a bug that would push_str("[") instead of insert_str(0, "[")
decorate_bracket_appended(self, name) ==
    LET s1 == name
        s2 == IF is_required(self) THEN s1 \o <<"!">> ELSE s1
    IN  IF is_list(self) THEN s2 \o <<"[">> \o <<"]">> ELSE s2

\* lines 172-183: s.push_str(&name), then "!" when required, then "[" "]" when list
decorate(self, name) ==
    LET s1 == name
        s2 == IF is_required(self) THEN s1 \o <<"!">> ELSE s1
    IN  IF is_list(self) THEN <<"[">> \o s2 \o <<"]">> ELSE s2

RECURSIVE recurse_decorated_name(_, _)
recurse_decorated_name(self, level) ==
    IF level = 0
    THEN EmptyStr
    ELSE LET name == IF is_some(self.name)
                     THEN unwrap(self.name)
                     ELSE IF is_some(self.of_type)
                          THEN recurse_decorated_name(unwrap(self.of_type), level - 1)
                          ELSE EmptyStr
         IN  decorate(self, name)

TYPE_LEVELS_plus_one == TYPE_LEVELS + 1

\* a bug that would allow one level more than TYPE_LEVELS
decorated_name_deeper(self) == recurse_decorated_name(self, TYPE_LEVELS_plus_one)

decorated_name(self) == recurse_decorated_name(self, TYPE_LEVELS)

(***************************************************************************)
(* impl TableItem for Field, Input, Enum                                   *)
(***************************************************************************)
\* a bug that would pass the type cell through to_safe_string too
Field_table_fields_all_safe(self) ==
    LET type_name == IF is_some(self.field_type)
                     THEN decorated_name(unwrap(self.field_type))
                     ELSE EmptyStr
    IN  <<to_safe_string(self.name), to_safe_string(Some(type_name)),
          to_safe_string(self.description)>>

Field_table_fields(self) ==
    LET type_name == IF is_some(self.field_type)
                     THEN decorated_name(unwrap(self.field_type))
                     ELSE EmptyStr
    IN  <<to_safe_string(self.name), type_name, to_safe_string(self.description)>>

Input_table_fields(self) ==
    LET type_name == IF is_some(self.input_type)
                     THEN decorated_name(unwrap(self.input_type))
                     ELSE EmptyStr
    IN  <<to_safe_string(self.name), type_name, to_safe_string(self.description),
          to_safe_string(self.default_value)>>

\* a bug that would show the reason whenever there is one
Enum_table_fields_reason_first(self) ==
    LET deprecation_reason == to_safe_string(self.deprecation_reason)
        dr == IF is_some(self.deprecation_reason) THEN deprecation_reason ELSE <<"n", "o">>
    IN  <<to_safe_string(self.name), to_safe_string(self.description), dr>>

Enum_table_fields(self) ==
    LET is_deprecated == IF is_some(self.is_deprecated) THEN unwrap(self.is_deprecated) ELSE FALSE
        deprecation_reason == to_safe_string(self.deprecation_reason)
        dr == IF is_deprecated THEN deprecation_reason ELSE <<"n", "o">>
    IN  <<to_safe_string(self.name), to_safe_string(self.description), dr>>

(***************************************************************************)
(* Result<T, Box<dyn Error>> and the errors of the module.                 *)
(***************************************************************************)
Ok(v) == [ok |-> TRUE, val |-> v]
Err(e) == [ok |-> FALSE, val |-> e]

SchemaError(message) == [type |-> "SchemaError", message |-> message]

\* a serde_json::Error, by its category: "syntax" (the text is not JSON) or
\* "data" (the JSON does not fit the target type)
SerdeError(category) == [type |-> "serde_json::Error", message |-> category]

AllOk(results) == \A i \in 1..Len(results) : results[i].ok

(***************************************************************************)
(* serde_json.  A text is either not JSON at all, or the rendering of one  *)
(* serde_json::Value; an object's map is a function from its keys.         *)
(***************************************************************************)
JNull == [t |-> "null"]
JBool(b) == [t |-> "bool", b |-> b]
JNumber(n) == [t |-> "number", n |-> n]
JString(s) == [t |-> "string", s |-> s]
JArray(a) == [t |-> "array", a |-> a]
JObject(m) == [t |-> "object", m |-> m]

NotJson == [wf |-> FALSE, v |-> JNull]

\* Value::to_string
to_string(v) == [wf |-> TRUE, v |-> v]

\* serde_json::from_str::<Value>
from_str_value(txt) == IF txt.wf THEN Ok(txt.v) ELSE Err(SerdeError("syntax"))

\* Map::get
map_get(m, key) == IF key \in DOMAIN m THEN Some(m[key]) ELSE None

\* a bug that would index the value (data["__schema"]), which gives null
\* where there is nothing to get
value_get_indexed(v, key) ==
    IF v.t = "object" /\ key \in DOMAIN v.m THEN Some(v.m[key]) ELSE Some(JNull)

\* Value::get(&str): None unless the value is an object holding the key
value_get(v, key) == IF v.t = "object" THEN map_get(v.m, key) ELSE None

(***************************************************************************)
(* The data model: each struct's fields in declaration order, with the     *)
(* serde alias and the type of each.                                       *)
(***************************************************************************)
TString == [k |-> "String"]
TBool == [k |-> "bool"]
TOption(ty) == [k |-> "Option", of |-> ty]
TVec(ty) == [k |-> "Vec", of |-> ty]
TStruct(name) == [k |-> "Struct", name |-> name]

FieldDecl(field, aliases, ty) == [field |-> field, aliases |-> aliases, ty |-> ty]

StructFields(struct) ==
    CASE struct = "Type" ->
            <<FieldDecl("name", {}, TOption(TString)),
              FieldDecl("kind", {}, TOption(TString)),
              FieldDecl("description", {}, TOption(TString)),
              FieldDecl("fields", {}, TOption(TVec(TStruct("Field")))),
              FieldDecl("inputs", {"inputFields"}, TOption(TVec(TStruct("Input")))),
              FieldDecl("interfaces", {}, TOption(TVec(TStruct("TypeRef")))),
              FieldDecl("enums", {"enumValues"}, TOption(TVec(TStruct("Enum")))),
              FieldDecl("possible_types", {"possibleTypes"}, TOption(TVec(TStruct("TypeRef"))))>>
      [] struct = "Field" ->
            <<FieldDecl("name", {}, TOption(TString)),
              FieldDecl("description", {}, TOption(TString)),
              FieldDecl("args", {}, TOption(TVec(TStruct("Input")))),
              FieldDecl("field_type", {"type"}, TOption(TStruct("TypeRef"))),
              FieldDecl("is_deprecated", {"isDeprecated"}, TOption(TBool)),
              FieldDecl("deprecation_reason", {"deprecationReason"}, TOption(TString))>>
      [] struct = "Input" ->
            <<FieldDecl("name", {}, TOption(TString)),
              FieldDecl("description", {}, TOption(TString)),
              FieldDecl("input_type", {"type"}, TOption(TStruct("TypeRef"))),
              FieldDecl("default_value", {"defaultValue"}, TOption(TString))>>
      [] struct = "Enum" ->
            <<FieldDecl("name", {}, TOption(TString)),
              FieldDecl("description", {}, TOption(TString)),
              FieldDecl("is_deprecated", {"isDeprecated"}, TOption(TBool)),
              FieldDecl("deprecation_reason", {"deprecationReason"}, TOption(TString))>>
      [] struct = "TypeRef" ->
            <<FieldDecl("name", {}, TOption(TString)),
              FieldDecl("kind", {}, TOption(TString)),
              FieldDecl("of_type", {"ofType"}, TOption(TStruct("TypeRef")))>>
      [] struct = "Directive" ->
            <<FieldDecl("name", {}, TOption(TString)),
              FieldDecl("description", {}, TOption(TString)),
              FieldDecl("locations", {}, TOption(TVec(TString))),
              FieldDecl("args", {}, TOption(TVec(TStruct("Input"))))>>
      [] struct = "Schema" ->
            <<FieldDecl("query_type", {"queryType"}, TOption(TStruct("Type"))),
              FieldDecl("mutation_type", {"mutationType"}, TOption(TStruct("Type"))),
              FieldDecl("subscription_type", {"subscriptionType"}, TOption(TStruct("Type"))),
              FieldDecl("types", {}, TOption(TVec(TStruct("Type")))),
              FieldDecl("directives", {}, TOption(TVec(TStruct("Directive"))))>>

(***************************************************************************)
(* The derived Deserialize implementations, as serde_json drives them.  A  *)
(* struct is read from an object (keys: the field's name or its alias,     *)
(* unknown keys ignored, a missing Option field is None, a field given     *)
(* twice is an error) or from an array of exactly its fields in            *)
(* declaration order.  The struct read is the record of its fields.        *)
(***************************************************************************)
\* the object's map, or the array's elements by the name of the field at their place
StructMap(v, decls) ==
    CASE v.t = "object" -> Ok(v.m)
      [] v.t = "array" ->
            IF Len(v.a) = Len(decls)
            THEN Ok([f \in {decls[i].field : i \in 1..Len(decls)} |->
                        v.a[CHOOSE i \in 1..Len(decls) : decls[i].field = f]])
            ELSE Err(SerdeError("data"))
      [] OTHER -> Err(SerdeError("data"))

\* the value given for a field: none, one, or an error when given twice
FieldOf(m, names) ==
    LET given == names \cap DOMAIN m
    IN  CASE given = {} -> Ok(None)
          [] Cardinality(given) = 1 -> Ok(Some(m[CHOOSE f \in given : TRUE]))
          [] OTHER -> Err(SerdeError("data"))

RECURSIVE Deserialize(_, _)
Deserialize(ty, v) ==
    CASE ty.k = "String" -> IF v.t = "string" THEN Ok(v.s) ELSE Err(SerdeError("data"))
      [] ty.k = "bool" -> IF v.t = "bool" THEN Ok(v.b) ELSE Err(SerdeError("data"))
      [] ty.k = "Option" ->
            IF v.t = "null" THEN Ok(None)
            ELSE LET r == Deserialize(ty.of, v)
                 IN  IF r.ok THEN Ok(Some(r.val)) ELSE r
      [] ty.k = "Vec" ->
            IF v.t # "array" THEN Err(SerdeError("data"))
            ELSE LET rs == [i \in 1..Len(v.a) |-> Deserialize(ty.of, v.a[i])]
                 IN  IF AllOk(rs) THEN Ok([i \in 1..Len(v.a) |-> rs[i].val])
                     ELSE Err(SerdeError("data"))
      [] ty.k = "Struct" ->
            LET decls == StructFields(ty.name)
                sm == StructMap(v, decls)
            IN  IF ~sm.ok THEN sm
                ELSE LET rs == [i \in 1..Len(decls) |->
                                 LET fv == FieldOf(sm.val, {decls[i].field} \cup decls[i].aliases)
                                 IN  IF ~fv.ok THEN fv
                                     ELSE IF is_some(fv.val)
                                     THEN Deserialize(decls[i].ty, unwrap(fv.val))
                                     ELSE IF decls[i].ty.k = "Option" THEN Ok(None)
                                     ELSE Err(SerdeError("data"))]
                     IN  IF AllOk(rs)
                         THEN Ok([f \in {decls[i].field : i \in 1..Len(decls)} |->
                                     rs[CHOOSE i \in 1..Len(decls) : decls[i].field = f].val])
                         ELSE Err(SerdeError("data"))

\* serde_json::from_str::<Schema>
from_str_schema(txt) == IF txt.wf THEN Deserialize(TStruct("Schema"), txt.v) ELSE Err(SerdeError("syntax"))

(***************************************************************************)
(* impl Schema                                                             *)
(***************************************************************************)
\* a bug that would swap the messages of the two None arms
from_str_arms_swapped(txt) ==
    LET parsed == from_str_value(txt)
    IN  IF ~parsed.ok THEN parsed
        ELSE IF parsed.val.t = "object"
        THEN LET data == map_get(parsed.val.m, "data")
             IN  IF is_some(data)
                 THEN LET schema_value == value_get(unwrap(data), "__schema")
                      IN  IF is_some(schema_value)
                          THEN from_str_schema(to_string(unwrap(schema_value)))
                          ELSE Err(SchemaError("data not in response"))
                 ELSE Err(SchemaError("schema not in response"))
        ELSE Err(SchemaError("response format not an object"))

from_str(txt) ==
    LET parsed == from_str_value(txt)
    IN  IF ~parsed.ok THEN parsed
        ELSE IF parsed.val.t = "object"
        THEN LET data == map_get(parsed.val.m, "data")
             IN  IF is_some(data)
                 THEN LET schema_value == value_get(unwrap(data), "__schema")
                      IN  IF is_some(schema_value)
                          THEN from_str_schema(to_string(unwrap(schema_value)))
                          ELSE Err(SchemaError("schema not in response"))
                 ELSE Err(SchemaError("data not in response"))
        ELSE Err(SchemaError("response format not an object"))

\* str::split(':'): the parts between the separators; an empty string has one (empty) part
RECURSIVE split_from(_, _, _, _, _)
split_from(s, sep, i, part, parts) ==
    IF i > Len(s) THEN Append(parts, part)
    ELSE IF s[i] = sep THEN split_from(s, sep, i + 1, EmptyStr, Append(parts, part))
    ELSE split_from(s, sep, i + 1, Append(part, s[i]), parts)

split(s, sep) == split_from(s, sep, 1, EmptyStr, <<>>)

\* Client::post(url): a request without headers; RequestBuilder::header appends one
client_post == [headers |-> <<>>]

header(request, name, value) ==
    [request EXCEPT !.headers = Append(@, [name |-> name, value |-> value])]

Colon == ":"
ContentType == <<"C", "o", "n", "t", "e", "n", "t", "-", "T", "y", "p", "e">>
ApplicationJson == <<"a", "p", "p", "l", "i", "c", "a", "t", "i", "o", "n", "/", "j", "s", "o", "n">>

\* for header in headers { ... }, from the i-th header on
RECURSIVE from_url_headers(_, _, _)
from_url_headers(request, hs, i) ==
    IF i > Len(hs) THEN request
    ELSE LET parts == split(hs[i], Colon)
         IN  IF Len(parts) = 2
             THEN from_url_headers(header(request, parts[1], parts[2]), hs, i + 1)
             ELSE from_url_headers(request, hs, i + 1)

\* the request from_url sends
from_url_request(hs) ==
    header(from_url_headers(client_post, hs, 1), ContentType, ApplicationJson)

\* send()?.text()? failed
TransportError == [type |-> "reqwest::Error", message |-> "transport"]

\* from_url, given what send()?.text()? returned
from_url(response) ==
    IF response.ok THEN from_str(response.val) ELSE response

\* SCHEMA_QUERY, fragment TypeRef: the ofType selections nested under the
\* outer kind/name selection, and the TypeRef nodes a response can so carry
SCHEMA_QUERY_ofType_levels == 7
SCHEMA_QUERY_TypeRef_nodes == 1 + SCHEMA_QUERY_ofType_levels

get_type_name(typ) == IF is_some(typ) THEN unwrap(typ).name ELSE None

get_query_name(s) == get_type_name(s.query_type)

\* a bug that would read the query root in the mutation accessor
get_mutation_name_of_query(s) == get_type_name(s.query_type)

get_mutation_name(s) == get_type_name(s.mutation_type)

get_subscription_name(s) == get_type_name(s.subscription_type)

\* The loop of get_type from element i on.  The &Type returned is the element's
\* place in self.types: Some(i).
RECURSIVE get_type_from(_, _, _)
get_type_from(types, i, name) ==
    IF i > Len(types) THEN None
    ELSE IF is_some(types[i].name) /\ unwrap(types[i].name) = name THEN Some(i)
    ELSE get_type_from(types, i + 1, name)

\* a bug that would end the scan at the first type without a name
RECURSIVE get_type_until_nameless(_, _, _)
get_type_until_nameless(types, i, name) ==
    IF i > Len(types) \/ is_none(types[i].name) THEN None
    ELSE IF unwrap(types[i].name) = name THEN Some(i)
    ELSE get_type_until_nameless(types, i + 1, name)

get_type_stopping(s, name) ==
    IF is_some(s.types) THEN get_type_until_nameless(unwrap(s.types), 1, name) ELSE None

get_type(s, name) ==
    IF is_some(s.types) THEN get_type_from(unwrap(s.types), 1, name) ELSE None

\* The loop of get_types_of_kind from element i on, vec being what was pushed so
\* far.  The Vec<&Type> returned is the sequence of the elements' places.
RECURSIVE get_types_of_kind_from(_, _, _, _)
get_types_of_kind_from(types, i, kind, vec) ==
    IF i > Len(types) THEN vec
    ELSE IF is_some(types[i].kind) /\ unwrap(types[i].kind) = kind
    THEN get_types_of_kind_from(types, i + 1, kind, Append(vec, i))
    ELSE get_types_of_kind_from(types, i + 1, kind, vec)

\* a bug that would insert each match at the front of the vector
RECURSIVE get_types_of_kind_front(_, _, _, _)
get_types_of_kind_front(types, i, kind, vec) ==
    IF i > Len(types) THEN vec
    ELSE IF is_some(types[i].kind) /\ unwrap(types[i].kind) = kind
    THEN get_types_of_kind_front(types, i + 1, kind, <<i>> \o vec)
    ELSE get_types_of_kind_front(types, i + 1, kind, vec)

get_types_of_kind_reversed(s, kind) ==
    IF is_some(s.types) THEN get_types_of_kind_front(unwrap(s.types), 1, kind, <<>>) ELSE <<>>

get_types_of_kind(s, kind) ==
    IF is_some(s.types) THEN get_types_of_kind_from(unwrap(s.types), 1, kind, <<>>) ELSE <<>>

(***************************************************************************)
(* The state before any text is parsed, and before any TypeRef is built.   *)
(***************************************************************************)
NoSchema ==
    /\ text = None /\ schema = None /\ err = None
    /\ call = None /\ ret = None /\ saved = None

NoTypeRef == tr = None /\ decorated = None

NoSafeString == opt_s = None /\ safe = None /\ resafe = None

NoItem == item = None /\ row = None

NoRequest == headers = None /\ post = None

(***************************************************************************)
(* Specification SpecDecor: TypeRef values are built as the tests build     *)
(* them (a struct literal around an inner TypeRef) and decorated.          *)
(***************************************************************************)
\* the number of nodes of a TypeRef chain
RECURSIVE Depth(_)
Depth(self) == IF is_some(self.of_type) THEN 1 + Depth(unwrap(self.of_type)) ELSE 1

LeafKinds == {None, Some(LIST), Some(NON_NULL), Some(OBJECT)}
WrapperKinds == {Some(LIST), Some(NON_NULL), Some(OBJECT)}
LeafNames == {None, Some(LeafName)}

InitDecor ==
    /\ \E name \in LeafNames, kind \in LeafKinds : tr = TypeRef(name, kind, None)
    /\ decorated = None
    /\ NoSchema /\ NoSafeString /\ NoItem /\ NoRequest

\* TypeRef { name: None, kind, of_type: Some(Box::new(tr)) }
WrapTypeRef(kind) ==
    /\ Depth(tr) < MaxChain
    /\ tr' = TypeRef(None, kind, Some(tr))
    /\ decorated' = None
    /\ UNCHANGED notDecorVars

DecoratedName ==
    /\ decorated = None
    /\ decorated' = Some(decorated_name(tr))
    /\ UNCHANGED tr
    /\ UNCHANGED notDecorVars

NextDecor ==
    \/ \E kind \in WrapperKinds : WrapTypeRef(kind)
    \/ DecoratedName

SpecDecor == InitDecor /\ [][NextDecor]_vars

(***************************************************************************)
(* Specification SpecDecorAny: TypeRef values of any shape are built and   *)
(* decorated: nodes with a name above other nodes, nodes without a kind,   *)
(* kinds in another case, chains without any name.                         *)
(***************************************************************************)
list == <<"l", "i", "s", "t">>
Non_Null == <<"N", "o", "n", "_", "N", "u", "l", "l">>

\* name and kind of the innermost node
AnyLeaves ==
    {<<Some(LeafName), Some(list)>>, <<None, Some(Non_Null)>>, <<Some(LeafName), Some(OBJECT)>>}

\* name and kind of a node put around a TypeRef
AnyWrappers ==
    {<<None, Some(LIST)>>, <<None, Some(NON_NULL)>>, <<Some(LeafName), Some(LIST)>>, <<None, None>>}

InitDecorAny ==
    /\ \E leaf \in AnyLeaves : tr = TypeRef(leaf[1], leaf[2], None)
    /\ decorated = None
    /\ NoSchema /\ NoSafeString /\ NoItem /\ NoRequest

\* TypeRef { name, kind, of_type: Some(Box::new(tr)) }
WrapTypeRefAny(name, kind) ==
    /\ Depth(tr) < MaxChain
    /\ tr' = TypeRef(name, kind, Some(tr))
    /\ decorated' = None
    /\ UNCHANGED notDecorVars

NextDecorAny ==
    \/ \E w \in AnyWrappers : WrapTypeRefAny(w[1], w[2])
    \/ DecoratedName

SpecDecorAny == InitDecorAny /\ [][NextDecorAny]_vars

(***************************************************************************)
(* The responses given to from_str: the envelope in all its shapes, every  *)
(* 'types' list of up to MaxTypes types over a few names and kinds, every  *)
(* combination of the three roots, payloads that do not fit the data       *)
(* model, and types whose fields carry TypeRef chains.                     *)
(***************************************************************************)
MaxTypes == 3       \* longest 'types' list of a response
MaxRefDepth == 2    \* most ofType levels of a TypeRef in a response

FOO == <<"F", "O", "O">>
foo == <<"f", "o", "o">>
QueryName == <<"Q", "u", "e", "r", "y">>
MutationName == <<"M", "u", "t", "a", "t", "i", "o", "n">>

OptKey(k, o) == IF is_some(o) THEN k :> unwrap(o) ELSE <<>>

Response(schema_value) == to_string(JObject("data" :> JObject("__schema" :> schema_value)))

TypeJson(n, k) == JObject(OptKey("name", n) @@ OptKey("kind", k))

TypeAttrValues == {None, Some(JString(FOO)), Some(JString(foo))}

TypeJsons == {TypeJson(n, k) : n \in TypeAttrValues, k \in TypeAttrValues}

TypesArrays == UNION {[1..n -> TypeJsons] : n \in 0..MaxTypes}

RootValues ==
    {None, Some(JNull), Some(JObject(<<>>)),
     Some(JObject("name" :> JString(QueryName))),
     Some(JObject("name" :> JString(MutationName)))}

SchemaJson(q, m, s, t) ==
    JObject(OptKey("queryType", q) @@ OptKey("mutationType", m)
                @@ OptKey("subscriptionType", s) @@ OptKey("types", t))

TypesTexts == {Response(SchemaJson(None, None, None, Some(JArray(a)))) : a \in TypesArrays}

RootsTexts ==
    {Response(SchemaJson(q, m, s, t)) :
        q \in RootValues, m \in RootValues, s \in RootValues,
        t \in {None, Some(JArray(<<TypeJson(Some(JString(QueryName)), Some(JString(FOO)))>>))}}

NonObjects == {JNull, JBool(TRUE), JNumber(1), JString(FOO), JArray(<<>>)}

Nulls(n) == JArray([i \in 1..n |-> JNull])

EnvelopeTexts ==
    {NotJson}
    \cup {to_string(v) : v \in NonObjects}
    \cup {to_string(JObject(<<>>)),
          to_string(JObject("errors" :> JArray(<<>>))),
          to_string(JObject("__schema" :> JObject(<<>>)))}
    \cup {to_string(JObject("data" :> v)) : v \in NonObjects}
    \cup {to_string(JObject("data" :> JArray(<<JObject("__schema" :> JObject(<<>>))>>)))}
    \cup {to_string(JObject("data" :> JObject(<<>>))),
          to_string(JObject("data" :> JObject("schema" :> JObject(<<>>))))}
    \cup {Response(v) : v \in NonObjects}
    \cup {Response(JObject(<<>>)), Response(Nulls(4)), Response(Nulls(5)), Response(Nulls(6))}

MismatchTexts ==
    {Response(JObject("queryType" :> JNumber(1))),
     Response(JObject("types" :> JObject(<<>>))),
     Response(JObject("types" :> JArray(<<JNumber(1)>>))),
     Response(JObject("query_type" :> JObject("name" :> JString(QueryName)))),
     Response(JObject("query_type" :> JObject(<<>>) @@ "queryType" :> JObject(<<>>))),
     Response(JObject("extra" :> JNumber(1))),
     Response(JObject("directives" :>
        JArray(<<JObject("name" :> JString(FOO) @@ "locations" :> JArray(<<JString(FOO)>>))>>))),
     Response(JObject("directives" :> JArray(<<JObject("locations" :> JString(FOO))>>)))}

RECURSIVE TypeRefJsons(_)
TypeRefJsons(depth) ==
    IF depth = 0
    THEN {JObject("name" :> JString(LeafName) @@ "kind" :> JString(k)) : k \in {OBJECT, NON_NULL, LIST}}
    ELSE TypeRefJsons(depth - 1)
         \cup {JObject("kind" :> JString(k) @@ "ofType" :> t) :
                  k \in {LIST, NON_NULL}, t \in TypeRefJsons(depth - 1)}

FieldJsons ==
    {JObject("name" :> JString(LeafName))}
    \cup {JObject("name" :> JString(LeafName) @@ "type" :> t) : t \in TypeRefJsons(MaxRefDepth)}

FieldsTexts ==
    {Response(JObject("types" :> JArray(<<
        JObject("name" :> JString(FOO) @@ "kind" :> JString(OBJECT) @@ "fields" :> JArray(<<f>>))>>))) :
        f \in FieldJsons}

Texts == EnvelopeTexts \cup MismatchTexts \cup TypesTexts \cup RootsTexts \cup FieldsTexts

\* the arguments of get_type and of get_types_of_kind
QueryNames == {FOO}
QueryKinds == {FOO}

(***************************************************************************)
(* Specification SpecSchema: one from_str call, then any navigation calls  *)
(* on the Schema it returned.                                              *)
(***************************************************************************)
InitSchema == NoSchema /\ NoTypeRef /\ NoSafeString /\ NoItem /\ NoRequest

FromStr ==
    /\ text = None
    /\ \E txt \in Texts :
          LET r == from_str(txt)
          IN  /\ text' = Some(txt)
              /\ schema' = IF r.ok THEN Some(r.val) ELSE None
              /\ err' = IF r.ok THEN None ELSE Some(r.val)
    /\ UNCHANGED <<call, ret, saved>>
    /\ UNCHANGED notSchemaVars

Call(method, name, path) == [method |-> method, name |-> name, path |-> path]

\* the call and its result are recorded; from the second call on, saved holds the
\* first call made and its result
Returned(c, r) ==
    /\ call' = Some(c)
    /\ ret' = r
    /\ saved' = IF is_some(saved) \/ is_none(call) THEN saved
                ELSE Some([call |-> unwrap(call), ret |-> ret])

\* a bug that would hand the matching types out of the Schema instead of lending them
GetTypesOfKindTaking(kind) ==
    /\ is_some(schema)
    /\ Returned(Call("get_types_of_kind", kind, <<>>), get_types_of_kind(unwrap(schema), kind))
    /\ schema' = LET s == unwrap(schema)
                 IN  IF is_some(s.types)
                     THEN Some([s EXCEPT !.types = Some(SelectSeq(unwrap(s.types),
                                   LAMBDA typ : ~(is_some(typ.kind) /\ unwrap(typ.kind) = kind)))])
                     ELSE schema
    /\ UNCHANGED <<text, err>>
    /\ UNCHANGED notSchemaVars

GetType(name) ==
    /\ is_some(schema)
    /\ Returned(Call("get_type", name, <<>>), get_type(unwrap(schema), name))
    /\ UNCHANGED <<text, schema, err>>
    /\ UNCHANGED notSchemaVars

GetTypesOfKind(kind) ==
    /\ is_some(schema)
    /\ Returned(Call("get_types_of_kind", kind, <<>>), get_types_of_kind(unwrap(schema), kind))
    /\ UNCHANGED <<text, schema, err>>
    /\ UNCHANGED notSchemaVars

GetQueryName ==
    /\ is_some(schema)
    /\ Returned(Call("get_query_name", EmptyStr, <<>>), get_query_name(unwrap(schema)))
    /\ UNCHANGED <<text, schema, err>>
    /\ UNCHANGED notSchemaVars

GetMutationName ==
    /\ is_some(schema)
    /\ Returned(Call("get_mutation_name", EmptyStr, <<>>), get_mutation_name(unwrap(schema)))
    /\ UNCHANGED <<text, schema, err>>
    /\ UNCHANGED notSchemaVars

GetSubscriptionName ==
    /\ is_some(schema)
    /\ Returned(Call("get_subscription_name", EmptyStr, <<>>), get_subscription_name(unwrap(schema)))
    /\ UNCHANGED <<text, schema, err>>
    /\ UNCHANGED notSchemaVars

\* decorated_name() of schema.types[i].fields[j].field_type
HasFieldType(s, i, j) ==
    /\ is_some(s.types) /\ i <= Len(unwrap(s.types))
    /\ is_some(unwrap(s.types)[i].fields) /\ j <= Len(unwrap(unwrap(s.types)[i].fields))
    /\ is_some(unwrap(unwrap(s.types)[i].fields)[j].field_type)

FieldTypeOf(s, i, j) == unwrap(unwrap(unwrap(s.types)[i].fields)[j].field_type)

FieldDecoratedName(i, j) ==
    /\ is_some(schema)
    /\ HasFieldType(unwrap(schema), i, j)
    /\ Returned(Call("decorated_name", EmptyStr, <<i, j>>),
                decorated_name(FieldTypeOf(unwrap(schema), i, j)))
    /\ UNCHANGED <<text, schema, err>>
    /\ UNCHANGED notSchemaVars

NextSchema ==
    \/ FromStr
    \/ \E name \in QueryNames : GetType(name)
    \/ \E kind \in QueryKinds : GetTypesOfKind(kind)
    \/ GetQueryName
    \/ GetMutationName
    \/ GetSubscriptionName
    \/ FieldDecoratedName(1, 1)

SpecSchema == InitSchema /\ [][NextSchema]_vars

(***************************************************************************)
(* Specification SpecSafe: to_safe_string on every optional string of up   *)
(* to MaxStrLen characters, then on its own result.                        *)
(***************************************************************************)
MaxStrLen == 4      \* longest string sanitized

Chars == {"a", " ", "\n", "\t", "\r"}

Strings == UNION {[1..n -> Chars] : n \in 0..MaxStrLen}

InitSafe ==
    /\ opt_s \in {None} \cup {Some(s) : s \in Strings}
    /\ safe = None /\ resafe = None
    /\ NoTypeRef /\ NoSchema /\ NoItem /\ NoRequest

ToSafeString ==
    /\ safe = None
    /\ safe' = Some(to_safe_string(opt_s))
    /\ UNCHANGED <<opt_s, resafe>>
    /\ UNCHANGED notSafeVars

ToSafeStringAgain ==
    /\ is_some(safe) /\ resafe = None
    /\ resafe' = Some(to_safe_string(Some(unwrap(safe))))
    /\ UNCHANGED <<opt_s, safe>>
    /\ UNCHANGED notSafeVars

NextSafe == ToSafeString \/ ToSafeStringAgain

SpecSafe == InitSafe /\ [][NextSafe]_vars

(***************************************************************************)
(* Specification SpecRow: the row of a Field, an Input or an Enum.         *)
(***************************************************************************)
Texty == <<" ", "a", "\n", "b", "\t">>

OptStrings == {None, Some(EmptyStr), Some(<<"a">>), Some(Texty)}

OptBools == {None, Some(TRUE), Some(FALSE)}

OptTypeRefs ==
    {None,
     Some(TypeRef(None, None, None)),
     Some(TypeRef(Some(LeafName), Some(OBJECT), None)),
     Some(TypeRef(Some(Texty), Some(LIST), None)),
     Some(TypeRef(None, Some(NON_NULL),
             Some(TypeRef(None, Some(LIST), Some(TypeRef(Some(LeafName), Some(NON_NULL), None))))))}

Fields ==
    {[name |-> n, description |-> d, args |-> None, field_type |-> t,
      is_deprecated |-> None, deprecation_reason |-> None] :
        n \in OptStrings, d \in OptStrings, t \in OptTypeRefs}

Inputs ==
    {[name |-> n, description |-> d, input_type |-> t, default_value |-> v] :
        n \in OptStrings, d \in OptStrings, t \in OptTypeRefs, v \in OptStrings}

Enums ==
    {[name |-> n, description |-> d, is_deprecated |-> b, deprecation_reason |-> r] :
        n \in OptStrings, d \in OptStrings, b \in OptBools, r \in OptStrings}

Item(struct, self) == [struct |-> struct, self |-> self]

InitRow ==
    /\ \/ \E self \in Fields : item = Some(Item("Field", self))
       \/ \E self \in Inputs : item = Some(Item("Input", self))
       \/ \E self \in Enums : item = Some(Item("Enum", self))
    /\ row = None
    /\ NoTypeRef /\ NoSchema /\ NoSafeString /\ NoRequest

FieldTableFields ==
    /\ row = None /\ unwrap(item).struct = "Field"
    /\ row' = Some(Field_table_fields(unwrap(item).self))
    /\ UNCHANGED item
    /\ UNCHANGED notRowVars

InputTableFields ==
    /\ row = None /\ unwrap(item).struct = "Input"
    /\ row' = Some(Input_table_fields(unwrap(item).self))
    /\ UNCHANGED item
    /\ UNCHANGED notRowVars

EnumTableFields ==
    /\ row = None /\ unwrap(item).struct = "Enum"
    /\ row' = Some(Enum_table_fields(unwrap(item).self))
    /\ UNCHANGED item
    /\ UNCHANGED notRowVars

NextRow == FieldTableFields \/ InputTableFields \/ EnumTableFields

SpecRow == InitRow /\ [][NextRow]_vars

(***************************************************************************)
(* Specification SpecUrl: one from_url call with up to MaxHeaders header   *)
(* strings; the server answers with a text, or the transport fails.  The   *)
(* header strings have names that are valid header names.                  *)
(***************************************************************************)
MaxHeaders == 3     \* most header strings given to from_url

HeaderStrings ==
    {<<"k", ":", "v">>,                 \* k:v
     <<"k", ":", " ", "v">>,            \* k: v
     <<"k", "v">>,                      \* kv
     <<"k", ":", "v", ":", "/", "v">>,  \* k:v:/v
     <<"j", ":", ":">>,                 \* j::
     <<"j", ":">>,                      \* j:
     EmptyStr}

HeaderLists == UNION {[1..n -> HeaderStrings] : n \in 0..MaxHeaders}

UrlResponses ==
    {Err(TransportError)}
    \cup {Ok(txt) : txt \in {NotJson, to_string(JObject(<<>>)), Response(JNull),
                             Response(JObject(<<>>))}}

InitUrl ==
    /\ headers \in {Some(hs) : hs \in HeaderLists}
    /\ post = None
    /\ NoSchema /\ NoTypeRef /\ NoSafeString /\ NoItem

FromUrl ==
    /\ post = None
    /\ post' = Some(from_url_request(unwrap(headers)))
    /\ \E response \in UrlResponses :
          LET r == from_url(response)
          IN  /\ text' = IF response.ok THEN Some(response.val) ELSE None
              /\ schema' = IF r.ok THEN Some(r.val) ELSE None
              /\ err' = IF r.ok THEN None ELSE Some(r.val)
    /\ UNCHANGED <<headers, call, ret, saved>>
    /\ UNCHANGED notUrlVars

NextUrl == FromUrl

SpecUrl == InitUrl /\ [][NextUrl]_vars

(***************************************************************************)
(* Reference rendering of a chain, built inward-out: start from a string   *)
(* and apply the decoration of node j, then j-1, ... down to node 1.  A    *)
(* NON_NULL node appends "!", a LIST node encloses in "[" and "]".         *)
(***************************************************************************)
RefDecoration(kind, r) ==
    CASE kind = Some(NON_NULL) -> r \o <<"!">>
      [] kind = Some(LIST) -> <<"[">> \o r \o <<"]">>
      [] OTHER -> r

RECURSIVE InwardOut(_, _, _)
InwardOut(chain, j, acc) ==
    IF j = 0 THEN acc
    ELSE InwardOut(chain, j - 1, RefDecoration(chain[j].kind, acc))

\* the nodes of a TypeRef, outermost first
RECURSIVE Chain(_)
Chain(self) ==
    <<[name |-> self.name, kind |-> self.kind]>>
        \o (IF is_some(self.of_type) THEN Chain(unwrap(self.of_type)) ELSE <<>>)

\* zero or more nameless LIST / NON_NULL wrappers ending in a named leaf
WellFormedChain(chain) ==
    /\ Len(chain) >= 1
    /\ \A i \in 1..(Len(chain) - 1) :
          /\ chain[i].name = None
          /\ chain[i].kind \in {Some(LIST), Some(NON_NULL)}
    /\ is_some(chain[Len(chain)].name)

Contains(s, c) == \E i \in 1..Len(s) : s[i] = c

\* C1: for every well-formed chain of at most 7 nodes, decorated_name() equals
\* the reference rendering built inward-out from the leaf name.
C1_DecoratedNameIsReference ==
    LET chain == Chain(tr)
    IN  (is_some(decorated) /\ WellFormedChain(chain) /\ Len(chain) <= 7)
            => unwrap(decorated) = InwardOut(chain, Len(chain), unwrap(chain[Len(chain)].name))

\* a 7-node chain NON_NULL(LIST(NON_NULL(LIST(NON_NULL(LIST(NON_NULL n)))))) was decorated
C1_Witness ==
    /\ Depth(tr) = 7
    /\ WellFormedChain(Chain(tr))
    /\ \A i \in 1..7 : Chain(tr)[i].kind = (IF i % 2 = 1 THEN Some(NON_NULL) ELSE Some(LIST))
    /\ decorated = Some(<<"[", "[", "[", "n", "!", "]", "!", "]", "!", "]", "!">>)

\* C6: for a chain of more than 7 nodes whose first 7 nodes carry no name, the
\* result is exactly the decorations of the first 7 nodes applied inward-out to
\* the empty string, and the name of a leaf at depth 8 or deeper does not appear.
C6_TruncatedAtSeven ==
    LET chain == Chain(tr)
    IN  (is_some(decorated) /\ Len(chain) > 7 /\ \A i \in 1..7 : chain[i].name = None)
            => /\ unwrap(decorated) = InwardOut(chain, 7, EmptyStr)
               /\ ~Contains(unwrap(decorated), "n")

\* an 8-node chain with a named leaf at depth 8 was decorated to "[[!]]"
C6_Witness ==
    /\ Depth(tr) = 8
    /\ Chain(tr)[8].name = Some(LeafName)
    /\ Chain(tr)[1].kind = Some(LIST) /\ Chain(tr)[2].kind = Some(LIST)
    /\ Chain(tr)[3].kind = Some(NON_NULL)
    /\ \A i \in 4..7 : Chain(tr)[i].kind = Some(OBJECT)
    /\ decorated = Some(<<"[", "[", "!", "]", "]">>)

(***************************************************************************)
(* Claims about Schema::from_str and the navigation methods (SpecSchema).  *)
(***************************************************************************)
\* the spec's error kinds, by what the code returns for them
InvalidResponse(e) ==
    e = SerdeError("syntax") \/ e = SchemaError("response format not an object")
MissingData(e) == e = SchemaError("data not in response")
MissingSchema(e) == e = SchemaError("schema not in response")

EmptySchema ==
    [query_type |-> None, mutation_type |-> None, subscription_type |-> None,
     types |-> None, directives |-> None]

\* the value under data.__schema of a well-formed object text, if there is one
HasSchemaValue(t) ==
    /\ t.wf /\ t.v.t = "object" /\ "data" \in DOMAIN t.v.m
    /\ t.v.m["data"].t = "object" /\ "__schema" \in DOMAIN t.v.m["data"].m
SchemaValue(t) == t.v.m["data"].m["__schema"]

\* C2: from_str classifies its input by the first failing check, in the order
\* (1) not JSON or not an object: InvalidResponse, (2) no 'data' key: MissingData,
\* (3) no '__schema' key in 'data': MissingSchema, (4) otherwise the '__schema'
\* value is deserialized, an empty object giving the Schema with five absent
\* fields; a Schema is returned only when every check passes, and never together
\* with an error.
C2_FromStrClassifies ==
    is_some(text) =>
        LET t == unwrap(text)
        IN  /\ is_some(schema) # is_some(err)
            /\ is_some(schema) => HasSchemaValue(t)
            /\ CASE ~t.wf \/ t.v.t # "object" -> is_some(err) /\ InvalidResponse(unwrap(err))
                 [] t.wf /\ t.v.t = "object" /\ "data" \notin DOMAIN t.v.m ->
                        is_some(err) /\ MissingData(unwrap(err))
                 [] t.wf /\ t.v.t = "object" /\ "data" \in DOMAIN t.v.m /\ ~HasSchemaValue(t) ->
                        is_some(err) /\ MissingSchema(unwrap(err))
                 [] OTHER ->
                        /\ is_some(err) => unwrap(err) = SerdeError("data")
                        /\ SchemaValue(t) = JObject(<<>>) => schema = Some(EmptySchema)

\* {"data": {"schema": {}}} was refused with "schema not in response"
C2_Witness ==
    /\ text = Some(to_string(JObject("data" :> JObject("schema" :> JObject(<<>>)))))
    /\ schema = None
    /\ err = Some(SchemaError("schema not in response"))

TypesOf(s) == IF is_some(s.types) THEN unwrap(s.types) ELSE <<>>

Min(S) == CHOOSE i \in S : \A j \in S : i <= j

\* C3: get_type(x) returns the type at the smallest index of 'types' whose name
\* is present and equal to x, and none when 'types' is absent or empty or no
\* type has that name; nameless types neither match nor stop the scan.
C3_GetTypeFirstMatch ==
    (is_some(call) /\ unwrap(call).method = "get_type") =>
        LET types == TypesOf(unwrap(schema))
            matching == {i \in 1..Len(types) :
                            is_some(types[i].name) /\ unwrap(types[i].name) = unwrap(call).name}
        IN  ret = IF matching = {} THEN None ELSE Some(Min(matching))

\* over the types (nameless), "FOO", "FOO", get_type("FOO") returned the second
C3_Witness ==
    /\ is_some(call) /\ unwrap(call) = Call("get_type", FOO, <<>>)
    /\ Len(TypesOf(unwrap(schema))) = 3
    /\ TypesOf(unwrap(schema))[1].name = None
    /\ TypesOf(unwrap(schema))[2].name = Some(FOO)
    /\ TypesOf(unwrap(schema))[3].name = Some(FOO)
    /\ ret = Some(2)

\* C4: get_types_of_kind(k) returns exactly the types whose kind is present and
\* equal to k, each once, in list order; types without a kind are left out even
\* when their name equals k, and the result is empty when 'types' is absent.
C4_TypesOfKindSubsequence ==
    (is_some(call) /\ unwrap(call).method = "get_types_of_kind") =>
        LET types == TypesOf(unwrap(schema))
            matching == {i \in 1..Len(types) :
                            is_some(types[i].kind) /\ unwrap(types[i].kind) = unwrap(call).name}
        IN  /\ {ret[j] : j \in 1..Len(ret)} = matching
            /\ \A j \in 1..(Len(ret) - 1) : ret[j] < ret[j + 1]
            /\ is_none(unwrap(schema).types) => ret = <<>>

\* over the types of kind "FOO", no kind but name "FOO", kind "FOO",
\* get_types_of_kind("FOO") returned the first and the third
C4_Witness ==
    /\ is_some(call) /\ unwrap(call) = Call("get_types_of_kind", FOO, <<>>)
    /\ Len(TypesOf(unwrap(schema))) = 3
    /\ TypesOf(unwrap(schema))[1].kind = Some(FOO)
    /\ TypesOf(unwrap(schema))[2].kind = None /\ TypesOf(unwrap(schema))[2].name = Some(FOO)
    /\ TypesOf(unwrap(schema))[3].kind = Some(FOO)
    /\ ret = <<1, 3>>

\* the name of a root: present exactly when the root and its name are
RootName(root) ==
    IF is_some(root) /\ is_some(unwrap(root).name) THEN Some(unwrap(unwrap(root).name)) ELSE None

\* every Schema that differs from s at most in the fields other than `field`
Elsewhere(s, field) ==
    {[f \in DOMAIN s |-> IF f = field THEN s[f] ELSE o[f]] :
        o \in {EmptySchema,
               [query_type |-> s.mutation_type, mutation_type |-> s.subscription_type,
                subscription_type |-> s.query_type, types |-> None, directives |-> None]}}

\* C5: each of get_query_name, get_mutation_name, get_subscription_name returns
\* the name of its own root exactly when that root and its name are present, and
\* none otherwise, whatever the other two roots and 'types' are.
C5_RootNames ==
    is_some(call) =>
        LET s == unwrap(schema)
        IN  /\ unwrap(call).method = "get_query_name" =>
                  /\ ret = RootName(s.query_type)
                  /\ \A o \in Elsewhere(s, "query_type") : get_query_name(o) = ret
            /\ unwrap(call).method = "get_mutation_name" =>
                  /\ ret = RootName(s.mutation_type)
                  /\ \A o \in Elsewhere(s, "mutation_type") : get_mutation_name(o) = ret
            /\ unwrap(call).method = "get_subscription_name" =>
                  /\ ret = RootName(s.subscription_type)
                  /\ \A o \in Elsewhere(s, "subscription_type") : get_subscription_name(o) = ret

\* with queryType named "Query", mutationType named "Mutation" and a
\* subscriptionType without a name, get_mutation_name returned "Mutation"
C5_Witness ==
    /\ is_some(call) /\ unwrap(call).method = "get_mutation_name"
    /\ RootName(unwrap(schema).query_type) = Some(QueryName)
    /\ is_some(unwrap(schema).subscription_type)
    /\ RootName(unwrap(schema).subscription_type) = None
    /\ is_some(unwrap(schema).types)
    /\ ret = Some(MutationName)

SameCallSameResult ==
    (is_some(saved) /\ is_some(call) /\ unwrap(saved).call = unwrap(call))
        => unwrap(saved).ret = ret

SchemaKept == is_some(schema) => schema' = schema

\* C7: no navigation call changes the Schema, and a call repeated with the same
\* argument returns what it returned the first time, whatever calls came between.
C7_NavigationReadOnly == []SameCallSameResult /\ [][SchemaKept]_vars

\* get_types_of_kind("FOO") was the first call, returned two types, and is the
\* latest call again
C7_Witness ==
    /\ is_some(saved) /\ is_some(call)
    /\ unwrap(saved).call = unwrap(call)
    /\ unwrap(call) = Call("get_types_of_kind", FOO, <<>>)
    /\ Len(TypesOf(unwrap(schema))) = 3
    /\ ret = <<1, 3>>

(***************************************************************************)
(* Claims about to_safe_string and the rows (SpecSafe, SpecRow).           *)
(***************************************************************************)
Max(S) == CHOOSE i \in S : \A j \in S : j <= i

\* the sanitized form of an optional text: empty when absent, otherwise the
\* text between its first and last non-whitespace characters without its newlines
Sanitized(o) ==
    IF is_none(o) THEN EmptyStr
    ELSE LET s == unwrap(o)
             solid == {i \in 1..Len(s) : ~is_whitespace(s[i])}
         IN  IF solid = {} THEN EmptyStr
             ELSE SelectSeq(SubSeq(s, Min(solid), Max(solid)), LAMBDA c : c # "\n")

\* C8: the Enum row is [sanitized name, sanitized description, deprecation cell];
\* the cell is the sanitized deprecation reason exactly when isDeprecated is
\* present and true (the empty string when the reason is absent), and "no" when
\* isDeprecated is false or absent, whatever reason is stored.
C8_EnumRow ==
    (is_some(item) /\ unwrap(item).struct = "Enum" /\ is_some(row)) =>
        LET self == unwrap(item).self
            cells == unwrap(row)
        IN  /\ Len(cells) = 3
            /\ cells[1] = Sanitized(self.name)
            /\ cells[2] = Sanitized(self.description)
            /\ cells[3] = IF self.is_deprecated = Some(TRUE)
                          THEN Sanitized(self.deprecation_reason)
                          ELSE <<"n", "o">>
            /\ (self.is_deprecated = Some(TRUE) /\ is_none(self.deprecation_reason))
                  => cells[3] = EmptyStr

\* an Enum with a reason and isDeprecated false has the deprecation cell "no"
C8_Witness ==
    /\ is_some(item) /\ unwrap(item).struct = "Enum" /\ is_some(row)
    /\ unwrap(item).self.is_deprecated = Some(FALSE)
    /\ unwrap(item).self.deprecation_reason = Some(Texty)
    /\ unwrap(row)[3] = <<"n", "o">>

\* C9: to_safe_string gives the empty string for an absent text, and otherwise
\* the text trimmed of leading and trailing whitespace with every newline
\* removed; the result holds no newline, neither begins nor ends with whitespace,
\* and sanitizing it again returns it unchanged.
C9_Sanitization ==
    is_some(safe) =>
        LET cell == unwrap(safe)
        IN  /\ cell = Sanitized(opt_s)
            /\ ~Contains(cell, "\n")
            /\ cell # EmptyStr => ~is_whitespace(cell[1]) /\ ~is_whitespace(cell[Len(cell)])
            /\ is_some(resafe) => resafe = safe

\* " a\na" was sanitized to "aa", and "aa" sanitized again to "aa"
C9_Witness ==
    /\ opt_s = Some(<<" ", "a", "\n", "a">>)
    /\ safe = Some(<<"a", "a">>)
    /\ resafe = Some(<<"a", "a">>)

TypeCell(t) == IF is_some(t) THEN decorated_name(unwrap(t)) ELSE EmptyStr

\* C10: the Field row is the 3 cells [sanitized name, type cell, sanitized
\* description] and the Input row the 4 cells [sanitized name, type cell,
\* sanitized description, sanitized default value]; the type cell is
\* decorated_name() of the member's TypeRef, as it is (not sanitized), and the
\* empty string when the type is absent.
C10_FieldAndInputRows ==
    (is_some(item) /\ is_some(row)) =>
        LET self == unwrap(item).self
            cells == unwrap(row)
        IN  /\ unwrap(item).struct = "Field" =>
                  /\ Len(cells) = 3
                  /\ cells[1] = Sanitized(self.name)
                  /\ cells[2] = TypeCell(self.field_type)
                  /\ cells[3] = Sanitized(self.description)
            /\ unwrap(item).struct = "Input" =>
                  /\ Len(cells) = 4
                  /\ cells[1] = Sanitized(self.name)
                  /\ cells[2] = TypeCell(self.input_type)
                  /\ cells[3] = Sanitized(self.description)
                  /\ cells[4] = Sanitized(self.default_value)

\* a Field whose type is a LIST named " a\nb\t" has the type cell "[ a\nb\t]"
C10_Witness ==
    /\ is_some(item) /\ unwrap(item).struct = "Field" /\ is_some(row)
    /\ unwrap(item).self.field_type = Some(TypeRef(Some(Texty), Some(LIST), None))
    /\ unwrap(item).self.name = Some(<<"a">>)
    /\ unwrap(item).self.description = Some(Texty)
    /\ unwrap(row) = <<<<"a">>, <<"[", " ", "a", "\n", "b", "\t", "]">>, <<"a", "b">>>>

(***************************************************************************)
(* Claims about Schema::from_url (SpecUrl).                                *)
(***************************************************************************)
HasColon(h) == \E i \in 1..Len(h) : h[i] = Colon

FirstColon(h) == Min({i \in 1..Len(h) : h[i] = Colon})

\* a header string cut at its first ':' : the name before it, the value after it
CutAtFirstColon(h) ==
    [name |-> SubSeq(h, 1, FirstColon(h) - 1), value |-> SubSeq(h, FirstColon(h) + 1, Len(h))]

\* the headers of hs that have a ':', each cut at its first ':', in order
RECURSIVE CutHeaders(_, _)
CutHeaders(hs, i) ==
    IF i > Len(hs) THEN <<>>
    ELSE IF HasColon(hs[i]) THEN <<CutAtFirstColon(hs[i])>> \o CutHeaders(hs, i + 1)
    ELSE CutHeaders(hs, i + 1)

\* C11: the request from_url sends carries every header string that has a
\* ':', cut at its first ':' into name and value (so a value may itself
\* contain ':'), in the order given; only the strings without any ':' are
\* skipped, and Content-Type: application/json is always sent after them.
C11_HeadersCutAtFirstColon ==
    is_some(post) =>
        unwrap(post).headers =
            CutHeaders(unwrap(headers), 1) \o <<[name |-> ContentType, value |-> ApplicationJson]>>

(***************************************************************************)
(* Claims about the decoration of what the introspection query returns     *)
(* (SpecDecor).                                                            *)
(***************************************************************************)
\* C12: for every well-formed chain as deep as the query's TypeRef fragment
\* allows (the outer node and up to 7 nested ofType levels, the innermost the
\* named leaf), decorated_name() contains the leaf's name and equals the full
\* inward-out reference rendering: nothing the query returns is truncated.
C12_BudgetCoversQuery ==
    LET chain == Chain(tr)
        leaf == unwrap(chain[Len(chain)].name)
    IN  (is_some(decorated) /\ WellFormedChain(chain) /\ Len(chain) <= SCHEMA_QUERY_TypeRef_nodes)
            => /\ unwrap(decorated) = InwardOut(chain, Len(chain), leaf)
               /\ \A i \in 1..Len(leaf) : Contains(unwrap(decorated), leaf[i])

(***************************************************************************)
(* Claims about a 'data' that is not an object (SpecSchema).               *)
(***************************************************************************)
\* the text is a JSON object with a 'data' key whose value is not an object
DataNotAnObject(t) ==
    /\ t.wf /\ t.v.t = "object" /\ "data" \in DOMAIN t.v.m
    /\ t.v.m["data"].t # "object"

\* C13: when the top-level object has a 'data' key whose value is not an
\* object (null, string, number, boolean, array), from_str fails with
\* MissingSchema ("schema not in response"): never with MissingData, never
\* with a deserialization error, and no Schema is returned.
C13_DataNotAnObject ==
    (is_some(text) /\ DataNotAnObject(unwrap(text)))
        => /\ schema = None
           /\ err = Some(SchemaError("schema not in response"))

\* {"data": [{"__schema": {}}]} was refused with "schema not in response"
C13_Witness ==
    /\ text = Some(to_string(JObject("data" :> JArray(<<JObject("__schema" :> JObject(<<>>))>>))))
    /\ schema = None
    /\ err = Some(SchemaError("schema not in response"))

(***************************************************************************)
(* Claims about the brackets and bangs of any TypeRef (SpecDecorAny).      *)
(***************************************************************************)
Count(s, c) == Cardinality({i \in 1..Len(s) : s[i] = c})

\* the index of the first node with a name, Len(chain) + 1 if there is none
FirstNamed(chain) ==
    Min({i \in 1..Len(chain) : is_some(chain[i].name)} \cup {Len(chain) + 1})

\* the nodes up to and including the first named one, at most 7 of them
Visited(chain) == 1..Min({7, Len(chain), FirstNamed(chain)})

KindCount(chain, kind) == Cardinality({i \in Visited(chain) : chain[i].kind = Some(kind)})

\* the characters of the first named node's name, if that node is visited
VisitedName(chain) ==
    IF FirstNamed(chain) \in Visited(chain) THEN unwrap(chain[FirstNamed(chain)].name) ELSE EmptyStr

\* C14: for every TypeRef chain, with the visited nodes being those up to and
\* including the first named node, at most 7: decorated_name() has as many
\* "[" as "]", as many as there are visited nodes of kind exactly LIST, as
\* many "!" as visited nodes of kind exactly NON_NULL, every "[" in a prefix
\* of the output, and no other character than these and the visited name:
\* nodes after the first named one and nodes of any other kind add nothing.
C14_BracketsAndBangs ==
    is_some(decorated) =>
        LET chain == Chain(tr)
            d == unwrap(decorated)
            lists == KindCount(chain, LIST)
            bangs == KindCount(chain, NON_NULL)
        IN  /\ Count(d, "[") = lists
            /\ Count(d, "]") = lists
            /\ Count(d, "!") = bangs
            /\ \A i \in 1..lists : d[i] = "["
            /\ Len(d) = 2 * lists + bangs + Len(VisitedName(chain))

\* NON_NULL(LIST n (kindless (LIST (n, kind "list")))) was decorated as [n]!
C14_Witness ==
    /\ tr = TypeRef(None, Some(NON_NULL), Some(
              TypeRef(Some(LeafName), Some(LIST), Some(
              TypeRef(None, None, Some(
              TypeRef(None, Some(LIST), Some(
              TypeRef(Some(LeafName), Some(list), None)))))))))
    /\ decorated = Some(<<"[", "n", "]", "!">>)

====
